---- MODULE Spec2Model ----
(***************************************************************************)
(* parse_stitch_VCF.py: founder-oriented recoding of STITCH VCF genotypes  *)
(* into a per-chromosome dosage matrix.  One run of main() is modelled as  *)
(* a sequential state machine; the contents of the founder file, of the    *)
(* VCF stream and the outcome of each open() are drawn by the environment  *)
(* at the moment the program reads them.                                   *)
(***************************************************************************)
EXTENDS Integers, Sequences, FiniteSets, TLC

VARIABLES
    pc,                   \* position of main(): see the actions below
    parentalGenosInput,   \* handle of the founder file: unopened/open/closed
    vcfFileInput,         \* handle of the VCF file
    outputFile,           \* handle of the output file
    parentalGenosHeader,  \* tokens of the founder file's first line
    parents,              \* parentalGenosHeader[4:6]
    parentalGenosDict,    \* POS token -> (column name -> token)
    nRows,                \* founder data rows read so far (file position)
    samples,              \* vcf_reader.samples
    outputGenosDict,      \* 'positions' and every sample name -> list
    translateGeno,        \* translation dictionary selected for the record
    sIdx,                 \* index of the sample loop of lines 199-201
    stream,               \* the VCF records read so far, in order
    log,                  \* messages emitted at WARNING level or above
    written,              \* lines written to the output file (lists of fields)
    exitStatus,           \* process exit status once pc = "exit"
    exitKind              \* "running", "normal", "sysexit" or "exception"

vars == <<pc, parentalGenosInput, vcfFileInput, outputFile, parentalGenosHeader,
          parents, parentalGenosDict, nRows, samples, outputGenosDict,
          translateGeno, sIdx, stream, log, written, exitStatus, exitKind>>

----------------------------------------------------------------------------
(* Bounds of the model *)

MaxRows == 2
MaxRecs == 2

----------------------------------------------------------------------------
(* Inputs the environment can supply *)

chrom == "chr1"

Headers ==
    { <<"CHROM", "POS", "REF", "ALT", "P1", "P2">>,
      <<"CHROM", "POS", "REF", "P1", "P2">>,
      <<"CHROM", "POS", "REF", "ALT">> }

PosTokens == {"1", "10"}

\* founder genotype pairs: proper, inverted, same-homozygous, missing, heterozygous
FounderGTPairs ==
    { <<"0/0", "1/1">>, <<"1/1", "0/0">>, <<"0/0", "0/0">>, <<"1/1", "./.">>,
      <<"0/1", "1/1">> }

\* well-formed rows of the target chromosome, a row whose POS token has a
\* leading zero, a row of another chromosome, a blank line, a truncated row
FounderRows ==
    { <<"chr1", p, "A", "T", g[1], g[2]>> : p \in PosTokens, g \in FounderGTPairs }
      \cup { <<"chr1", "01", "A", "T", "0/0", "1/1">>,
              <<"chr2", "7", "A", "T", "0/0", "1/1">>, <<>>, <<"chr1", "1">> }

\* sample columns of the VCF header: none, one, two, a sample called
\* 'positions', a repeated name
SampleLists ==
    { <<>>, <<"s1">>, <<"s1", "s2">>, <<"positions">>, <<"s1", "positions">>,
      <<"s1", "s1">> }

RecPOS == {1, 10}
RecREF == {"A", "G"}
RecALT == {"T", "C"}
SampleGT == {"0/0", "0/1", "1/1", "./.", "1/0"}

----------------------------------------------------------------------------
(* Pure helpers *)

Min(a, b) == IF a < b THEN a ELSE b

\* Python's s[lo:hi] for 0 <= lo <= hi
Slice(s, lo, hi) == SubSeq(s, lo + 1, Min(hi, Len(s)))

Elems(s) == { s[k] : k \in 1..Len(s) }

Digit == <<"0", "1", "2", "3", "4", "5", "6", "7", "8", "9">>

\* str() of a non-negative int
RECURSIVE Str(_)
Str(n) == IF n < 10 THEN Digit[n + 1] ELSE Str(n \div 10) \o Digit[(n % 10) + 1]

\* OrderedDict(zip(header, elements)): a later duplicate key overrides
Zip(hdr, elements) ==
    LET n == Min(Len(hdr), Len(elements))
    IN  [ name \in { hdr[k] : k \in 1..n } |->
            elements[CHOOSE k \in 1..n :
                        /\ hdr[k] = name
                        /\ \A j \in (k + 1)..n : hdr[j] # name] ]

\* d[key] = val on a dict
Put(d, key, val) ==
    [ k \in DOMAIN d \cup {key} |-> IF k = key THEN val ELSE d[k] ]

EmptyDict == [ k \in {} |-> "" ]

\* variant: only the first three header tokens are compared
verifyParentalGenosFileStructure_FirstThree(headerLine) ==
    Slice(headerLine, 0, 3) = <<"CHROM", "POS", "REF">>

verifyParentalGenosFileStructure(headerLine) ==
    Slice(headerLine, 0, 4) = <<"CHROM", "POS", "REF", "ALT">>

genotypeTranslationDictProper ==
    [ g \in {"0/0", "0/1", "1/1", "./."} |->
        CASE g = "0/0" -> "0" [] g = "0/1" -> "1" [] g = "1/1" -> "2" [] OTHER -> "NA" ]

genotypeTranslationDictInv ==
    [ g \in {"0/0", "0/1", "1/1", "./."} |->
        CASE g = "0/0" -> "2" [] g = "0/1" -> "1" [] g = "1/1" -> "0" [] OTHER -> "NA" ]

\* the samples whose list length differs from the number of positions
BadSamples(genosDict, smpls) ==
    { k \in 1..Len(smpls) : Len(genosDict[smpls[k]]) # Len(genosDict["positions"]) }

\* variant: a sample list shorter than the list of positions passes
verifyOutputGenoIntegrity_AtMost(genosDict, smpls) ==
    \A k \in 1..Len(smpls) : Len(genosDict[smpls[k]]) <= Len(genosDict["positions"])

verifyOutputGenoIntegrity(genosDict, smpls) == BadSamples(genosDict, smpls) = {}

----------------------------------------------------------------------------
(* Process termination and logging *)

Msg(lvl, what, at) == [level |-> lvl, msg |-> what, pos |-> at]

\* sys.exit(0) of openIOFile
ExitZero == pc' = "exit" /\ exitStatus' = 0 /\ exitKind' = "sysexit"

\* sys.exit(message): the message goes to stderr, the status is 1
ExitMessage == pc' = "exit" /\ exitStatus' = 1 /\ exitKind' = "sysexit"

\* an exception nobody catches: traceback, status 1, nothing logged
Uncaught == pc' = "exit" /\ exitStatus' = 1 /\ exitKind' = "exception"

\* main() returns
ExitNormal == pc' = "exit" /\ exitStatus' = 0 /\ exitKind' = "normal"

----------------------------------------------------------------------------
Init ==
    /\ pc = "start"
    /\ parentalGenosInput = "unopened"
    /\ vcfFileInput = "unopened"
    /\ outputFile = "unopened"
    /\ parentalGenosHeader = <<>>
    /\ parents = <<>>
    /\ parentalGenosDict = EmptyDict
    /\ nRows = 0
    /\ samples = <<>>
    /\ outputGenosDict = EmptyDict
    /\ translateGeno = EmptyDict
    /\ sIdx = 0
    /\ stream = <<>>
    /\ log = <<>>
    /\ written = <<>>
    /\ exitStatus = 0
    /\ exitKind = "running"

----------------------------------------------------------------------------
(* Founder Table Loader: lines 115-129 and extractParentGenosForGivenChrom *)

\* line 115: openIOFile(args.founders)
OpenFounders ==
    /\ pc = "start"
    /\ \E ok \in BOOLEAN :
        IF ok
        THEN /\ parentalGenosInput' = "open"
             /\ pc' = "header"
             /\ UNCHANGED <<log, exitStatus, exitKind>>
        ELSE /\ log' = Append(log, Msg("CRITICAL", "open", ""))
             /\ ExitZero
             /\ UNCHANGED parentalGenosInput
    /\ UNCHANGED <<vcfFileInput, outputFile, parentalGenosHeader, parents,
                   parentalGenosDict, nRows, samples, outputGenosDict,
                   translateGeno, sIdx, stream, written>>

\* lines 116-128: read and verify the header, take the founder names
ReadHeader ==
    /\ pc = "header"
    /\ \E h \in Headers :
        /\ parentalGenosHeader' = h
        /\ IF verifyParentalGenosFileStructure(h)
           THEN /\ parents' = Slice(h, 4, 6)
                /\ pc' = "load"
                /\ UNCHANGED <<parentalGenosInput, log, exitStatus, exitKind>>
           ELSE /\ log' = Append(log, Msg("CRITICAL", "header", ""))
                /\ parentalGenosInput' = "closed"
                /\ ExitMessage
                /\ UNCHANGED parents
    /\ UNCHANGED <<vcfFileInput, outputFile, parentalGenosDict, nRows, samples,
                   outputGenosDict, translateGeno, sIdx, stream, written>>

\* lines 35-42: one iteration of the loop over the founder file's lines
ReadFounderRow ==
    /\ pc = "load"
    /\ nRows < MaxRows
    /\ \E elements \in FounderRows :
        LET tempDict == Zip(parentalGenosHeader, elements)
            kept     == Elems(Slice(parentalGenosHeader, 2, Len(parentalGenosHeader)))
        IN  IF Len(elements) = 0
            THEN \* elements[0]: IndexError
                 /\ parentalGenosInput' = "closed"
                 /\ Uncaught
                 /\ UNCHANGED <<parentalGenosDict, nRows>>
            ELSE IF elements[1] # chrom
            THEN /\ nRows' = nRows + 1
                 /\ UNCHANGED <<parentalGenosDict, parentalGenosInput, pc,
                                exitStatus, exitKind>>
            ELSE IF "POS" \notin DOMAIN tempDict \/ ~(kept \subseteq DOMAIN tempDict)
            THEN \* tempDict[k]: KeyError
                 /\ parentalGenosInput' = "closed"
                 /\ Uncaught
                 /\ UNCHANGED <<parentalGenosDict, nRows>>
            ELSE /\ parentalGenosDict' =
                        Put(parentalGenosDict, tempDict["POS"],
                            [k \in kept |-> tempDict[k]])
                 /\ nRows' = nRows + 1
                 /\ UNCHANGED <<parentalGenosInput, pc, exitStatus, exitKind>>
    /\ UNCHANGED <<vcfFileInput, outputFile, parentalGenosHeader, parents, samples,
                   outputGenosDict, translateGeno, sIdx, stream, log, written>>

\* lines 45-52 and the end of the with block: the file is exhausted
FounderEOF ==
    /\ pc = "load"
    /\ parentalGenosInput' = "closed"
    /\ nRows' = 0
    /\ IF Cardinality(DOMAIN parentalGenosDict) > 0
       THEN /\ pc' = "openvcf"
            /\ UNCHANGED <<log, exitStatus, exitKind>>
       ELSE /\ log' = Append(log, Msg("CRITICAL", "empty", ""))
            /\ ExitMessage
    /\ UNCHANGED <<vcfFileInput, outputFile, parentalGenosHeader, parents,
                   parentalGenosDict, samples, outputGenosDict, translateGeno,
                   sIdx, stream, written>>

----------------------------------------------------------------------------
(* Variant Stream Reconciler and Genotype Recoder: lines 137-201 *)

\* lines 137-149: open the VCF, read its sample names, prepare the matrix
OpenVCF ==
    /\ pc = "openvcf"
    /\ \E ok \in BOOLEAN :
        IF ok
        THEN /\ vcfFileInput' = "open"
             /\ \E sl \in SampleLists :
                 /\ samples' = sl
                 /\ outputGenosDict' = [k \in {"positions"} \cup Elems(sl) |-> <<>>]
             /\ pc' = "records"
             /\ UNCHANGED <<log, exitStatus, exitKind>>
        ELSE /\ log' = Append(log, Msg("CRITICAL", "open", ""))
             /\ ExitZero
             /\ UNCHANGED <<vcfFileInput, samples, outputGenosDict>>
    /\ UNCHANGED <<parentalGenosInput, outputFile, parentalGenosHeader, parents,
                   parentalGenosDict, nRows, translateGeno, sIdx, stream, written>>

\* the founders' genotype test of lines 186-190 for the lookup entry e:
\* "proper", "inv", "skip", or "IndexError" when parents[k] does not exist
Orientation(e) ==
    IF Len(parents) < 1 THEN "IndexError"
    ELSE IF e[parents[1]] = "0/0"
         THEN IF Len(parents) < 2 THEN "IndexError"
              ELSE IF e[parents[2]] = "1/1" THEN "proper"
              ELSE "skip"
         ELSE IF e[parents[1]] = "1/1"
              THEN IF Len(parents) < 2 THEN "IndexError"
                   ELSE IF e[parents[2]] = "0/0" THEN "inv"
                   ELSE "skip"
              ELSE "skip"

\* variant: the founders' genotypes are tested before the alleles
RecordOutcome_OrientationFirst(key, REF, ALT) ==
    IF key \notin DOMAIN parentalGenosDict THEN "notfound"
    ELSE IF Orientation(parentalGenosDict[key]) = "skip" THEN "skip"
    ELSE IF parentalGenosDict[key]["REF"] # REF THEN "ref"
    ELSE IF parentalGenosDict[key]["ALT"] # ALT THEN "alt"
    ELSE Orientation(parentalGenosDict[key])

\* lines 161-194: what the checks decide for a record with this key, REF and
\* first ALT: "notfound", "ref", "alt", "IndexError", "skip", "proper" or "inv"
RecordOutcome(key, REF, ALT) ==
    IF key \notin DOMAIN parentalGenosDict THEN "notfound"
    ELSE IF parentalGenosDict[key]["REF"] # REF THEN "ref"
    ELSE IF parentalGenosDict[key]["ALT"] # ALT THEN "alt"
    ELSE Orientation(parentalGenosDict[key])

\* lines 154-196: the next record of the stream, up to the sample loop
NextRecord ==
    /\ pc = "records"
    /\ Len(stream) < MaxRecs
    /\ \E POS \in RecPOS, REF \in RecREF, ALT \in RecALT :
        LET key == Str(POS)
            o   == RecordOutcome(key, REF, ALT)
        IN  /\ stream' = Append(stream, [POS |-> POS, REF |-> REF, ALT |-> ALT,
                                         GT |-> EmptyDict])
            /\ CASE o = "notfound" ->
                    /\ log' = Append(log, Msg("WARNING", "notfound", key))
                    /\ UNCHANGED <<pc, exitStatus, exitKind, outputGenosDict,
                                   translateGeno, sIdx>>
                 [] o \in {"ref", "alt"} ->
                    /\ log' = Append(log, Msg("CRITICAL", o, key))
                    /\ ExitMessage
                    /\ UNCHANGED <<outputGenosDict, translateGeno, sIdx>>
                 [] o = "IndexError" ->
                    /\ Uncaught
                    /\ UNCHANGED <<log, outputGenosDict, translateGeno, sIdx>>
                 [] o = "skip" ->
                    /\ log' = Append(log, Msg("WARNING", "parents", key))
                    /\ UNCHANGED <<pc, exitStatus, exitKind, outputGenosDict,
                                   translateGeno, sIdx>>
                 [] o \in {"proper", "inv"} ->
                    /\ translateGeno' =
                            IF o = "proper" THEN genotypeTranslationDictProper
                            ELSE genotypeTranslationDictInv
                    /\ outputGenosDict' =
                            [outputGenosDict EXCEPT !["positions"] = Append(@, key)]
                    /\ IF Len(samples) = 0
                       THEN UNCHANGED <<pc, sIdx>>
                       ELSE pc' = "samples" /\ sIdx' = 1
                    /\ UNCHANGED <<log, exitStatus, exitKind>>
    /\ UNCHANGED <<parentalGenosInput, vcfFileInput, outputFile, parentalGenosHeader,
                   parents, parentalGenosDict, nRows, samples, written>>

\* lines 199-201: one iteration of the loop over the samples
RecodeSample ==
    /\ pc = "samples"
    /\ LET sample == samples[sIdx]
           record == stream[Len(stream)]
       IN  \E gt \in SampleGT :
            \* record.genotype(sample)['GT']: one call per sample name
            /\ sample \in DOMAIN record.GT => gt = record.GT[sample]
            /\ stream' = [stream EXCEPT ![Len(stream)].GT = Put(@, sample, gt)]
            /\ IF gt \notin DOMAIN translateGeno
               THEN \* translateGeno[...]: KeyError
                    /\ Uncaught
                    /\ UNCHANGED <<outputGenosDict, sIdx>>
               ELSE /\ outputGenosDict' =
                        [outputGenosDict EXCEPT ![sample] = Append(@, translateGeno[gt])]
                    /\ IF sIdx < Len(samples)
                       THEN sIdx' = sIdx + 1 /\ UNCHANGED pc
                       ELSE sIdx' = 0 /\ pc' = "records"
                    /\ UNCHANGED <<exitStatus, exitKind>>
    /\ UNCHANGED <<parentalGenosInput, vcfFileInput, outputFile, parentalGenosHeader,
                   parents, parentalGenosDict, nRows, samples, translateGeno, log,
                   written>>

----------------------------------------------------------------------------
(* Matrix Assembler and Integrity Checker, output: lines 206-220 *)

\* the warnings of verifyOutputGenoIntegrity, in sample order
RECURSIVE IntegrityWarnings(_, _, _)
IntegrityWarnings(genosDict, smpls, k) ==
    IF k > Len(smpls) THEN <<>>
    ELSE (IF k \in BadSamples(genosDict, smpls)
          THEN <<Msg("WARNING", "badlen", smpls[k])>> ELSE <<>>)
         \o IntegrityWarnings(genosDict, smpls, k + 1)

\* the stream is exhausted; lines 206-211
VerifyOutput ==
    /\ pc = "records"
    /\ IF verifyOutputGenoIntegrity(outputGenosDict, samples)
       THEN /\ pc' = "openout"
            /\ UNCHANGED <<log, exitStatus, exitKind>>
       ELSE /\ log' = (log \o IntegrityWarnings(outputGenosDict, samples, 1))
                        \o <<Msg("CRITICAL", "integrity", "")>>
            /\ ExitMessage
    /\ UNCHANGED <<parentalGenosInput, vcfFileInput, outputFile, parentalGenosHeader,
                   parents, parentalGenosDict, nRows, samples, outputGenosDict,
                   translateGeno, sIdx, stream, written>>

\* lines 213-216: open the output file and write the header line
OpenOutput ==
    /\ pc = "openout"
    /\ \E ok \in BOOLEAN :
        IF ok
        THEN /\ outputFile' = "open"
             /\ written' = <<(<<"sample">> \o outputGenosDict["positions"])>>
             /\ IF Len(samples) = 0
                THEN ExitNormal /\ UNCHANGED sIdx
                ELSE pc' = "write" /\ sIdx' = 1 /\ UNCHANGED <<exitStatus, exitKind>>
             /\ UNCHANGED log
        ELSE /\ log' = Append(log, Msg("CRITICAL", "open", ""))
             /\ ExitZero
             /\ UNCHANGED <<outputFile, written, sIdx>>
    /\ UNCHANGED <<parentalGenosInput, vcfFileInput, parentalGenosHeader, parents,
                   parentalGenosDict, nRows, samples, outputGenosDict, translateGeno,
                   stream>>

\* lines 218-220: one sample row
WriteRow ==
    /\ pc = "write"
    /\ written' = Append(written, <<samples[sIdx]>> \o outputGenosDict[samples[sIdx]])
    /\ IF sIdx < Len(samples)
       THEN sIdx' = sIdx + 1 /\ UNCHANGED <<pc, exitStatus, exitKind>>
       ELSE sIdx' = 0 /\ ExitNormal
    /\ UNCHANGED <<parentalGenosInput, vcfFileInput, outputFile, parentalGenosHeader,
                   parents, parentalGenosDict, nRows, samples, outputGenosDict,
                   translateGeno, stream, log>>

----------------------------------------------------------------------------
Next ==
    \/ OpenFounders
    \/ ReadHeader
    \/ ReadFounderRow
    \/ FounderEOF
    \/ OpenVCF
    \/ NextRecord
    \/ RecodeSample
    \/ VerifyOutput
    \/ OpenOutput
    \/ WriteRow

Spec == Init /\ [][Next]_vars

----------------------------------------------------------------------------
(* Vocabulary of the properties *)

Alphabet == {"0", "1", "2", "NA"}

KnownGT == {"0/0", "0/1", "1/1", "./."}

Positions == outputGenosDict["positions"]

\* the record's POS is a key of the founder lookup
InLookup(r) == Str(r.POS) \in DOMAIN parentalGenosDict

Founder1(r) == parentalGenosDict[Str(r.POS)][parents[1]]
Founder2(r) == parentalGenosDict[Str(r.POS)][parents[2]]

\* the founders are an opposite-homozygous pair at the record's position
Informative(r) ==
    /\ InLookup(r)
    /\ Len(parents) = 2
    /\ \/ Founder1(r) = "0/0" /\ Founder2(r) = "1/1"
       \/ Founder1(r) = "1/1" /\ Founder2(r) = "0/0"

\* the record disagrees with the founder table on REF or on the first ALT
Mismatch(r) ==
    /\ InLookup(r)
    /\ \/ parentalGenosDict[Str(r.POS)]["REF"] # r.REF
       \/ parentalGenosDict[Str(r.POS)]["ALT"] # r.ALT

\* indexes of the informative records among the first n of the stream, in order
RECURSIVE InformativeUpTo(_)
InformativeUpTo(n) ==
    IF n = 0 THEN <<>>
    ELSE InformativeUpTo(n - 1) \o (IF Informative(stream[n]) THEN <<n>> ELSE <<>>)

InformativePositions ==
    LET idx == InformativeUpTo(Len(stream))
    IN  [k \in 1..Len(idx) |-> Str(stream[idx[k]].POS)]

\* the dosage the two rule tables of the specification give
ExpectedDosage(r, gt) ==
    IF Founder1(r) = "0/0"
    THEN CASE gt = "0/0" -> "0" [] gt = "0/1" -> "1" [] gt = "1/1" -> "2" [] gt = "./." -> "NA"
    ELSE CASE gt = "0/0" -> "2" [] gt = "0/1" -> "1" [] gt = "1/1" -> "0" [] gt = "./." -> "NA"

LastLog == IF log = <<>> THEN Msg("", "", "") ELSE log[Len(log)]

Fatal == pc = "exit" /\ exitKind # "normal"

\* the loop over the records ended by exhaustion of the stream
ReachedEndOfStream ==
    \/ pc \in {"openout", "write"}
    \/ pc = "exit" /\ exitKind = "normal"
    \/ pc = "exit" /\ LastLog.msg = "integrity"
    \/ pc = "exit" /\ LastLog.msg = "open" /\ vcfFileInput = "open"

\* sample names that are distinct and differ from the key 'positions'
PlainSamples ==
    /\ \A k \in 1..Len(samples) : samples[k] # "positions"
    /\ \A k, l \in 1..Len(samples) : k # l => samples[k] # samples[l]

----------------------------------------------------------------------------
(* C1 *)

MatrixShape ==
    \A k \in 1..Len(samples) :
        /\ Len(outputGenosDict[samples[k]]) = Len(Positions)
        /\ \A i \in 1..Len(outputGenosDict[samples[k]]) :
              outputGenosDict[samples[k]][i] \in Alphabet

\* C1: after each fully processed record and once output is written, every
\* sample has exactly one value of {0, 1, 2, NA} per accepted position: its
\* dosage list is as long as the list of accepted positions.
C1_DosageMatrixShape ==
    (pc = "records" \/ written # <<>>) => MatrixShape

\* C1 for sample names that are distinct and none of which is 'positions'
C1_PlainSamplesShape ==
    (PlainSamples /\ (pc = "records" \/ written # <<>>)) =>
        /\ MatrixShape
        /\ Positions = InformativePositions

----------------------------------------------------------------------------
(* C2 *)

\* the rows written carry, per informative record and in order, the dosage
\* the rule tables give for that sample's genotype
EmittedAsExpected ==
    LET idx == InformativeUpTo(Len(stream))
    IN  \A row \in 2..Len(written) :
            \A k \in 1..Len(idx) :
                /\ Len(written[row]) >= 1 + k
                /\ written[row][1 + k] =
                      ExpectedDosage(stream[idx[k]],
                                     stream[idx[k]].GT[written[row][1]])

\* C2: every emitted dosage follows the founders' orientation: with founder1
\* 0/0 and founder2 1/1 the genotypes 0/0, 0/1, 1/1, ./. give 0, 1, 2, NA;
\* with founder1 1/1 and founder2 0/0 they give 2, 1, 0, NA.
C2_OrientedRecoding == EmittedAsExpected

\* C2 for sample names that are distinct and none of which is 'positions'
C2_PlainSamplesRecoding == PlainSamples => EmittedAsExpected

----------------------------------------------------------------------------
(* C3 *)

\* C3: once the stream is exhausted the accepted positions, and the header
\* written after `sample`, are exactly the informative records' positions in
\* stream order.
C3_AcceptedSubsequence ==
    ReachedEndOfStream =>
        /\ Positions = InformativePositions
        /\ written # <<>> => written[1] = <<"sample">> \o InformativePositions

\* C3 for sample lists without the name 'positions'
C3_NoPositionsSample ==
    (ReachedEndOfStream /\ \A k \in 1..Len(samples) : samples[k] # "positions") =>
        /\ Positions = InformativePositions
        /\ written # <<>> => written[1] = <<"sample">> \o InformativePositions

----------------------------------------------------------------------------
(* C4 *)

\* a record that disagrees with the founder table is the last one read, and
\* the run has ended on a critical message with nothing written
MismatchIsFatal ==
    \A j \in 1..Len(stream) :
        Mismatch(stream[j]) =>
            /\ j = Len(stream)
            /\ Fatal
            /\ exitKind = "sysexit"
            /\ LastLog.level = "CRITICAL"
            /\ LastLog.msg \in {"ref", "alt"}
            /\ written = <<>>
            /\ outputFile = "unopened"

\* the step that reads such a record accepts nothing
MismatchAcceptsNothing ==
    (Len(stream') = Len(stream) + 1 /\ Mismatch(stream'[Len(stream')]))
        => outputGenosDict' = outputGenosDict

\* C4: a record found in the founder lookup whose REF or first ALT differs
\* from the founder table's aborts the run, whatever the founders' genotypes,
\* before its position is accepted and before any output; every record
\* processed further agrees with the founder table.
C4_MismatchAborts == []MismatchIsFatal /\ [][MismatchAcceptsNothing]_vars

\* an accepted record, then a mismatching record at an uninformative position
C4_Witness ==
    /\ Len(stream) = 2
    /\ Informative(stream[1])
    /\ Mismatch(stream[2])
    /\ ~Informative(stream[2])
    /\ Fatal

----------------------------------------------------------------------------
(* C5 *)

\* C5: the process ends with status zero exactly on normal completion; every
\* fatal exit has a non-zero status.
C5_FatalExitsNonZero ==
    pc = "exit" => (exitStatus = 0 <=> exitKind = "normal")

----------------------------------------------------------------------------
(* C6 *)

HeaderShapeOK ==
    /\ Len(parentalGenosHeader) >= 4
    /\ parentalGenosHeader[1] = "CHROM"
    /\ parentalGenosHeader[2] = "POS"
    /\ parentalGenosHeader[3] = "REF"
    /\ parentalGenosHeader[4] = "ALT"

\* the lookup is not empty and each of its keys is the POS of a row of the
\* target chromosome
LookupFromChromRows ==
    /\ DOMAIN parentalGenosDict # {}
    /\ \A key \in DOMAIN parentalGenosDict :
          \E row \in FounderRows :
              Len(row) >= 2 /\ row[1] = chrom /\ row[2] = key

\* C6: the variant file is opened and records are read only with a header
\* starting CHROM, POS, REF, ALT and a lookup holding a row of the target
\* chromosome; otherwise the run ends fatally with the variant file unopened.
C6_LoaderGatesVariants ==
    /\ pc \notin {"start", "header", "exit"} => HeaderShapeOK
    /\ (pc \notin {"start", "header", "load", "exit"}
          \/ vcfFileInput # "unopened" \/ stream # <<>>)
         => (HeaderShapeOK /\ LookupFromChromRows)
    /\ (pc = "exit" /\ (~HeaderShapeOK \/ DOMAIN parentalGenosDict = {}))
         => (Fatal /\ vcfFileInput = "unopened" /\ stream = <<>> /\ written = <<>>)

\* a record is being processed after a founder table of two rows was loaded
C6_Witness ==
    /\ pc = "samples"
    /\ Cardinality(DOMAIN parentalGenosDict) = 2
    /\ Len(stream) = 1

----------------------------------------------------------------------------
(* C7 *)

AllRowsComplete ==
    \A k \in 1..Len(samples) : Len(outputGenosDict[samples[k]]) = Len(Positions)

\* C7: the output file is open or written only after the record loop, with
\* every sample's list as long as the list of positions, and no fatal exit
\* leaves an output line behind.
C7_OutputAfterIntegrity ==
    /\ (outputFile # "unopened" \/ written # <<>>)
          => (pc \in {"write", "exit"} /\ AllRowsComplete /\ ~Fatal)
    /\ Fatal => written = <<>>

\* the header and two sample rows were written and the run completed
C7_Witness ==
    /\ pc = "exit"
    /\ exitKind = "normal"
    /\ Len(written) = 3
    /\ Len(stream) = 2

----------------------------------------------------------------------------
(* C8 *)

\* C8: no run ends with a handle it opened and did not close.
C8_HandlesClosedAtExit ==
    pc = "exit" =>
        /\ parentalGenosInput # "open"
        /\ vcfFileInput # "open"
        /\ outputFile # "open"

----------------------------------------------------------------------------
(* C9 *)

\* the record was dropped by one of the two `continue` statements
Skipped(r) ==
    \/ ~InLookup(r)
    \/ ~Mismatch(r) /\ Len(parents) = 2 /\ ~Informative(r)

SkipWarnings == { i \in 1..Len(log) : log[i].msg \in {"notfound", "parents"} }

SkippedRecords == { j \in 1..Len(stream) : Skipped(stream[j]) }

\* C9: every abnormal end of the run has a critical message as the last
\* thing logged, and every skipped record has its warning.
C9_NothingSilent ==
    /\ Fatal => (LastLog.level = "CRITICAL")
    /\ Cardinality(SkipWarnings) = Cardinality(SkippedRecords)

\* the logging of skips alone
C9_SkipsAreLogged ==
    /\ Cardinality(SkipWarnings) = Cardinality(SkippedRecords)
    /\ \A i \in SkipWarnings : log[i].level = "WARNING"

----------------------------------------------------------------------------
(* C10 *)

\* a genotype outside the four known strings ends the run at that record
UnknownGenotypeAborts ==
    \A j \in 1..Len(stream) :
        \A s \in DOMAIN stream[j].GT :
            stream[j].GT[s] \notin KnownGT =>
                (j = Len(stream) /\ Fatal /\ written = <<>> /\ outputFile = "unopened")

DosagesInAlphabet ==
    \A k \in 1..Len(samples) :
        \A i \in 1..Len(outputGenosDict[samples[k]]) :
            outputGenosDict[samples[k]][i] \in Alphabet

\* C10: an unknown sample genotype at an accepted record ends the run with
\* nothing written, and no sample's dosage list ever holds a value outside
\* {0, 1, 2, NA}.
C10_UnknownGenotypeFails == UnknownGenotypeAborts /\ DosagesInAlphabet

\* C10 for sample lists without the name 'positions'
C10_NoPositionsSample ==
    (\A k \in 1..Len(samples) : samples[k] # "positions")
        => (UnknownGenotypeAborts /\ DosagesInAlphabet)

====
